---- MODULE Spec2Model ----
(* Model of main.py: the poll loop of the YouTube -> Discord notifier,      *)
(* its JSON state file, the live-status checker and the webhook notifier.   *)
EXTENDS Integers, Sequences, FiniteSets, TLC

VARIABLES
    pc,                   \* position of the poll-loop thread
    file,                 \* STATE_FILE on disk: [exists, text]
    state,                \* run_poll_loop local `state`
    last_notified_video,  \* run_poll_loop local `last_notified_video`
    backoff,              \* run_poll_loop local `backoff`
    live,                 \* run_poll_loop local `live` (vid, title) of the running cycle
    cyc,                  \* history: what the running / just finished cycle saw and did
    trail,                \* history: sleep intervals of the current run of faulted cycles
    absentRun,            \* history: length of the current run of cycles whose checker result was None
    lastAnnounced,        \* history: id of the latest notifier call that returned (kept over restarts)
    annOld,               \* history: lastAnnounced was announced by an earlier process
    loadIoErr,            \* history: load_state of this process hit an I/O error
    config,               \* module globals YOUTUBE_API_KEY, CHANNEL_ID, DISCORD_WEBHOOK_URL
    threads,              \* number of poll-loop threads this process has started
    http,                 \* body of the latest answer of the Flask server
    saveFailed,           \* history: the latest save_state of this process hit an I/O error
    returned,             \* history: ids for which the notifier was called and returned (kept over restarts)
    initId,               \* history: the id the state file held at the very start
    annHist               \* history: the latest ids announced by this process, oldest first

vars == <<pc, file, state, last_notified_video, backoff, live, cyc, trail,
          absentRun, lastAnnounced, annOld, loadIoErr, config, threads, http,
          saveFailed, returned, initId, annHist>>

histVars == <<saveFailed, returned, initId, annHist>>

(* what the main thread and the web server own *)
procVars == <<config, threads, http>>

---------------------------------------------------------------------------
(* Program constants *)

POLL_INTERVAL == 900

MAX_BACKOFF == 3600

STATE_KEY == "last_notified_video_id"

(* Bounds of the model *)

MaxFaults == 3

MaxAbsentRun == 10

MaxHist == 3

Ids == {"abc123", "xyz789"}

Titles == {"Big Game", "Rematch"}

---------------------------------------------------------------------------
(* Python values that occur in the state dict and the loop locals *)

PyNone == [t |-> "None"]

PyStr(s) == [t |-> "str", s |-> s]

PyList == [t |-> "list"]

PyDict(items) == [t |-> "dict", items |-> items]

EmptyDict == PyDict(<<>>)

Min(a, b) == IF a < b THEN a ELSE b

(* dict.get(key): the value, or None when the key is missing *)
RECURSIVE ItemsGet(_, _)
ItemsGet(items, key) ==
    IF items = <<>> THEN PyNone
    ELSE IF Head(items).k = key THEN Head(items).v
    ELSE ItemsGet(Tail(items), key)

DictGet(d, key) == ItemsGet(d.items, key)

DictSetLost(d, key, v) == d

(* dict[key] = v: replaces in place, else appends (insertion order kept) *)
HasKey(items, key) == \E i \in 1..Len(items) : items[i].k = key

ItemsSet(items, key, v) ==
    IF HasKey(items, key)
    THEN [i \in 1..Len(items) |->
             IF items[i].k = key THEN [k |-> key, v |-> v] ELSE items[i]]
    ELSE Append(items, [k |-> key, v |-> v])

DictSet(d, key, v) == PyDict(ItemsSet(d.items, key, v))

---------------------------------------------------------------------------
(* JSON text of the state file, as a sequence of tokens *)

Punct == {"{", "}", "[", "]", ":", ",", "null"}

EncodeValue(v) == IF v = PyNone THEN "null" ELSE v.s

RECURSIVE DumpItems(_)
DumpItems(items) ==
    IF items = <<>> THEN <<>>
    ELSE <<Head(items).k, ":", EncodeValue(Head(items).v)>>
         \o (IF Len(items) > 1 THEN <<",">> ELSE <<>>)
         \o DumpItems(Tail(items))

JsonDumpUnclosed(d) == <<"{">> \o DumpItems(d.items)

(* json.dump(state, f) of a dict *)
JsonDump(d) == <<"{">> \o DumpItems(d.items) \o <<"}">>

DecodeValue(tok) == IF tok = "null" THEN PyNone ELSE PyStr(tok)

IsValueTok(tok) == tok = "null" \/ tok \notin Punct

(* the tokens between the braces are key : value separated by commas *)
MembersOk(m) ==
    \/ m = <<>>
    \/ /\ Len(m) % 4 = 3
       /\ \A i \in 1..Len(m) :
            CASE i % 4 = 1 -> m[i] \notin Punct
              [] i % 4 = 2 -> m[i] = ":"
              [] i % 4 = 3 -> IsValueTok(m[i])
              [] OTHER     -> m[i] = ","

RECURSIVE BuildItems(_, _)
BuildItems(m, acc) ==
    IF Len(m) < 3 THEN acc
    ELSE BuildItems(SubSeq(m, 5, Len(m)), ItemsSet(acc, m[1], DecodeValue(m[3])))

(* json.load(f): [ok |-> FALSE] stands for JSONDecodeError *)
JsonLoad(text) ==
    IF text = <<"null">> THEN [ok |-> TRUE, val |-> PyNone]
    ELSE IF text = <<"[", "]">> THEN [ok |-> TRUE, val |-> PyList]
    ELSE IF Len(text) = 1 /\ text[1] \notin Punct
         THEN [ok |-> TRUE, val |-> PyStr(text[1])]
    ELSE IF /\ Len(text) >= 2
            /\ text[1] = "{"
            /\ text[Len(text)] = "}"
            /\ MembersOk(SubSeq(text, 2, Len(text) - 1))
         THEN [ok |-> TRUE,
               val |-> PyDict(BuildItems(SubSeq(text, 2, Len(text) - 1), <<>>))]
    ELSE [ok |-> FALSE, val |-> PyNone]

---------------------------------------------------------------------------
(* Persistent state *)

NoFile == [exists |-> FALSE, text |-> <<>>]

TextFile(text) == [exists |-> TRUE, text |-> text]

(* the last_notified_video_id that the text of the state file holds *)
PersistedId(f) ==
    IF f.exists /\ JsonLoad(f.text).ok /\ JsonLoad(f.text).val.t = "dict"
    THEN DictGet(JsonLoad(f.text).val, STATE_KEY)
    ELSE PyNone

load_stateForgets(f, ioerr) == EmptyDict

(* load_state(): ioerr is an I/O error of open/read *)
load_state(f, ioerr) ==
    IF f.exists
    THEN IF ioerr THEN EmptyDict
         ELSE IF JsonLoad(f.text).ok THEN JsonLoad(f.text).val
         ELSE EmptyDict
    ELSE EmptyDict

save_stateEmpty(f, st, io) == TextFile(<<>>)

(* save_state(state): io.err is "none", "open" (open failed, file untouched) *)
(* or "write" (opened and truncated, then only io.n tokens reached the disk) *)
save_state(f, st, io) ==
    IF io.err = "none" THEN TextFile(JsonDump(st))
    ELSE IF io.err = "open" THEN f
    ELSE TextFile(SubSeq(JsonDump(st), 1, io.n))

save_stateRaisesOnError(io) == io.err # "none"

save_stateRaisesOnWrite(io) == io.err = "write"

(* lines 41-45: the try/except of save_state lets no I/O error out *)
save_stateRaises(io) == FALSE

SaveOutcomes(st) ==
    {[err |-> "none", n |-> 0], [err |-> "open", n |-> 0]}
    \cup {[err |-> "write", n |-> n] : n \in 0..(Len(JsonDump(st)) - 1)}

---------------------------------------------------------------------------
(* YouTube API *)

NoBody == [json |-> FALSE, hasItems |-> FALSE, items |-> <<>>]

Item(vid, title) == [hasVideoId |-> TRUE, videoId |-> vid, title |-> title]

(* a search result that is not a video: video["id"]["videoId"] is a KeyError *)
BadItem == [hasVideoId |-> FALSE, videoId |-> "", title |-> ""]

Bodies ==
    {NoBody,
     [json |-> TRUE, hasItems |-> FALSE, items |-> <<>>],
     [json |-> TRUE, hasItems |-> TRUE, items |-> <<>>],
     [json |-> TRUE, hasItems |-> TRUE, items |-> <<BadItem>>]}
    \cup {[json |-> TRUE, hasItems |-> TRUE, items |-> <<Item(v, t)>>] :
             v \in Ids, t \in Titles}

(* what requests.get can produce: an exception (timeout, connection error) *)
(* or a response with a status code and a body                             *)
Responses ==
    {[exc |-> TRUE, status |-> 0, body |-> NoBody]}
    \cup {[exc |-> FALSE, status |-> 200, body |-> b] : b \in Bodies}
    \cup {[exc |-> FALSE, status |-> s, body |-> NoBody] : s \in {403, 500}}

Raise == [tag |-> "raise", vid |-> PyNone, title |-> ""]

ReturnNone == [tag |-> "None", vid |-> PyNone, title |-> ""]

ReturnLive(vid, title) == [tag |-> "live", vid |-> PyStr(vid), title |-> title]

get_current_live_streamSwallow(resp) ==
    IF resp.exc THEN Raise
    ELSE IF resp.status # 200 \/ ~resp.body.json THEN ReturnNone
    ELSE IF ~resp.body.hasItems \/ resp.body.items = <<>> THEN ReturnNone
    ELSE IF ~resp.body.items[1].hasVideoId THEN ReturnNone
    ELSE ReturnLive(resp.body.items[1].videoId, resp.body.items[1].title)

get_current_live_streamRaiseForStatus(resp) ==
    IF resp.exc \/ resp.status # 200 \/ ~resp.body.json THEN Raise
    ELSE IF ~resp.body.hasItems \/ resp.body.items = <<>> THEN ReturnNone
    ELSE IF ~resp.body.items[1].hasVideoId THEN Raise
    ELSE ReturnLive(resp.body.items[1].videoId, resp.body.items[1].title)

(* get_current_live_stream(channel_id, api_key) on the response resp *)
get_current_live_stream(resp) ==
    IF resp.exc THEN Raise
    ELSE IF resp.status # 200 THEN ReturnNone
    ELSE IF ~resp.body.json THEN Raise
    ELSE IF ~resp.body.hasItems \/ resp.body.items = <<>> THEN ReturnNone
    ELSE IF ~resp.body.items[1].hasVideoId THEN Raise
    ELSE ReturnLive(resp.body.items[1].videoId, resp.body.items[1].title)

---------------------------------------------------------------------------
(* Discord *)

(* what requests.post (no timeout) can produce: an exception, a response, *)
(* or no answer at all                                                    *)
WebhookResponses ==
    {[exc |-> TRUE, stall |-> FALSE, status |-> 0],
     [exc |-> FALSE, stall |-> TRUE, status |-> 0]}
    \cup {[exc |-> FALSE, stall |-> FALSE, status |-> s] : s \in {200, 204, 404, 500}}

(* send_discord_notification(video_id, title) on the webhook's answer w: *)
(* "raise", "blocked", "warn" (logged a warning, returned) or "ok"       *)
send_discord_notification(w) ==
    IF w.exc THEN "raise"
    ELSE IF w.stall THEN "blocked"
    ELSE IF w.status \notin {200, 204} THEN "warn"
    ELSE "ok"

---------------------------------------------------------------------------
(* Polling loop *)

NoLive == [tag |-> "None", vid |-> PyNone, title |-> ""]

NoCycle ==
    [active |-> FALSE, preLast |-> PyNone, preFile |-> NoFile, preBackoff |-> 0,
     resp |-> "none", result |-> NoLive, calls |-> <<>>, save |-> "skipped",
     fault |-> FALSE]

IsNewAlways(vid, last) == TRUE

(* vid != last_notified_video *)
IsNew(vid, last) == vid # last

NextBackoffLinear(b) == Min(b + POLL_INTERVAL, MAX_BACKOFF)

(* backoff = min(backoff * 2, MAX_BACKOFF) *)
NextBackoff(b) == Min(b * 2, MAX_BACKOFF)

(* kind of answer the checker got, for the history of the cycle *)
RespKind(resp) ==
    IF resp.exc THEN "timeout"
    ELSE IF resp.status # 200 THEN "non200"
    ELSE IF ~resp.body.json THEN "malformed"
    ELSE IF ~resp.body.hasItems \/ resp.body.items = <<>> THEN "empty"
    ELSE IF ~resp.body.items[1].hasVideoId THEN "malformed"
    ELSE "live"

GrowTrail(tr, b) == IF Len(tr) < MaxFaults THEN Append(tr, b) ELSE tr

GrowRun(n) == IF n < MaxAbsentRun THEN n + 1 ELSE n

GrowHist(h, vid) == IF Len(h) < MaxHist THEN Append(h, vid) ELSE Append(Tail(h), vid)

---------------------------------------------------------------------------
(* Configuration and entry point *)

Unset == [set |-> FALSE, val |-> ""]

SetTo(v) == [set |-> TRUE, val |-> v]

PlaceholderKey == "YOUR_YOUTUBE_API_KEY"

PlaceholderChannel == "YOUR_CHANNEL_ID"

PlaceholderWebhook == "YOUR_DISCORD_WEBHOOK_URL"

(* os.getenv(name, default) *)
os_getenv(e, default) == IF e.set THEN e.val ELSE default

Env(k, c, w) == [key |-> k, channel |-> c, webhook |-> w]

(* the environments the process is started in: everything set, nothing    *)
(* set, one setting set to its placeholder, one setting set but empty     *)
Envs ==
    {Env(SetTo("configured"), SetTo("configured"), SetTo("configured")),
     Env(Unset, Unset, Unset),
     Env(SetTo(PlaceholderKey), SetTo("configured"), SetTo("configured")),
     Env(SetTo("configured"), SetTo(""), SetTo("configured")),
     Env(SetTo("configured"), SetTo("configured"), SetTo(""))}

(* lines 11-13 *)
Configs ==
    {[key     |-> os_getenv(e.key, PlaceholderKey),
      channel |-> os_getenv(e.channel, PlaceholderChannel),
      webhook |-> os_getenv(e.webhook, PlaceholderWebhook)] : e \in Envs}

(* truth value of a str *)
Truthy(str) == str # ""

(* line 154: YOUTUBE_API_KEY and CHANNEL_ID and DISCORD_WEBHOOK_URL *)
ConfigOk(c) == Truthy(c.key) /\ Truthy(c.channel) /\ Truthy(c.webhook)

(* line 147, without its leading check-mark character *)
home == "YouTube -> Discord notifier is running."

InitFiles ==
    {NoFile,
     TextFile(<<>>),
     TextFile(<<"{">>),
     TextFile(<<"[", "]">>),
     TextFile(<<"null">>),
     TextFile(<<"{", "}">>),
     TextFile(<<"{", "other", ":", "v", "}">>),
     TextFile(<<"{", STATE_KEY, ":", "abc123", "}">>),
     TextFile(<<"{", "other", ":", "v", ",", STATE_KEY, ":", "xyz789", "}">>)}

Init ==
    /\ pc = "main"
    /\ config \in Configs
    /\ threads = 0
    /\ http = "none"
    /\ file \in InitFiles
    /\ state = EmptyDict
    /\ last_notified_video = PyNone
    /\ backoff = POLL_INTERVAL
    /\ live = NoLive
    /\ cyc = NoCycle
    /\ trail = <<>>
    /\ absentRun = 0
    /\ lastAnnounced = PyNone
    /\ annOld = FALSE
    /\ loadIoErr = FALSE
    /\ saveFailed = FALSE
    /\ returned = {}
    /\ initId = PersistedId(file)
    /\ annHist = <<>>

(* lines 152-163: exit(1) when the check of line 154 fails, else start the  *)
(* poll thread and the web server                                           *)
Main ==
    /\ pc = "main"
    /\ IF ConfigOk(config)
       THEN /\ pc' = "start"
            /\ threads' = threads + 1
       ELSE /\ pc' = "exited"
            /\ threads' = threads
    /\ UNCHANGED <<file, state, last_notified_video, backoff, live, cyc, trail,
                   absentRun, lastAnnounced, annOld, loadIoErr, config, http>>
    /\ UNCHANGED histVars

HealthCheckResets ==
    /\ pc \notin {"main", "exited"}
    /\ http' = home
    /\ backoff' = POLL_INTERVAL
    /\ UNCHANGED <<pc, file, state, last_notified_video, live, cyc, trail,
                   absentRun, lastAnnounced, annOld, loadIoErr, config, threads>>
    /\ UNCHANGED histVars

(* lines 145-147: GET / is answered while the web server runs *)
HealthCheck ==
    /\ pc \notin {"main", "exited"}
    /\ http' = home
    /\ UNCHANGED <<pc, file, state, last_notified_video, backoff, live, cyc, trail,
                   absentRun, lastAnnounced, annOld, loadIoErr, config, threads>>
    /\ UNCHANGED histVars

(* lines 104-109: load_state(), state.get(...), backoff = POLL_INTERVAL.   *)
(* state.get on a value that is not a dict raises outside the try: the     *)
(* thread ends.                                                            *)
LoadState ==
    /\ pc = "start"
    /\ \E ioerr \in BOOLEAN :
         LET st == load_state(file, ioerr) IN
           /\ loadIoErr' = (file.exists /\ ioerr)
           /\ state' = st
           /\ IF st.t = "dict"
              THEN /\ last_notified_video' = DictGet(st, STATE_KEY)
                   /\ pc' = "poll"
              ELSE /\ last_notified_video' = PyNone
                   /\ pc' = "dead"
    /\ backoff' = POLL_INTERVAL
    /\ UNCHANGED <<file, live, cyc, trail, absentRun, lastAnnounced, annOld>>
    /\ UNCHANGED procVars
    /\ UNCHANGED histVars

(* the except branch, lines 133-135, then line 137 *)
Except(c) ==
    /\ backoff' = NextBackoff(backoff)
    /\ trail' = GrowTrail(trail, NextBackoff(backoff))
    /\ absentRun' = 0
    /\ cyc' = [c EXCEPT !.fault = TRUE]
    /\ pc' = "sleep"

(* end of the try block, line 131, then line 137 *)
Success(c) ==
    /\ backoff' = POLL_INTERVAL
    /\ trail' = <<>>
    /\ cyc' = c
    /\ pc' = "sleep"

(* lines 114-117 and the branches that end the cycle without notifying *)
Poll ==
    /\ pc = "poll"
    /\ \E resp \in Responses :
         LET r == get_current_live_stream(resp)
             c == [active |-> TRUE, preLast |-> last_notified_video,
                   preFile |-> file, preBackoff |-> backoff,
                   resp |-> RespKind(resp), result |-> r, calls |-> <<>>,
                   save |-> "skipped", fault |-> FALSE]
         IN CASE r.tag = "raise" ->
                   /\ Except(c)
                   /\ live' = NoLive
              [] r.tag = "None" ->
                   /\ Success(c)
                   /\ absentRun' = GrowRun(absentRun)
                   /\ live' = NoLive
              [] OTHER ->
                   IF IsNew(r.vid, last_notified_video)
                   THEN /\ pc' = "notify"
                        /\ live' = r
                        /\ cyc' = c
                        /\ absentRun' = 0
                        /\ UNCHANGED <<backoff, trail>>
                   ELSE /\ Success(c)
                        /\ absentRun' = 0
                        /\ live' = r
    /\ UNCHANGED <<file, state, last_notified_video, lastAnnounced, annOld, loadIoErr>>
    /\ UNCHANGED procVars
    /\ UNCHANGED histVars

NotifySkipped ==
    /\ pc = "notify"
    /\ pc' = "record"
    /\ UNCHANGED <<file, state, last_notified_video, backoff, live, cyc, trail,
                   absentRun, lastAnnounced, annOld, loadIoErr>>
    /\ UNCHANGED procVars
    /\ UNCHANGED histVars

(* line 119 *)
Notify ==
    /\ pc = "notify"
    /\ \E w \in WebhookResponses :
         LET out == send_discord_notification(w)
             c == [cyc EXCEPT !.calls =
                      Append(@, [vid |-> live.vid, title |-> live.title, out |-> out])]
         IN CASE out = "raise" ->
                   /\ Except(c)
                   /\ UNCHANGED <<lastAnnounced, annOld, returned, annHist>>
              [] out = "blocked" ->
                   /\ pc' = "blocked"
                   /\ cyc' = c
                   /\ UNCHANGED <<backoff, trail, absentRun, lastAnnounced, annOld,
                                  returned, annHist>>
              [] OTHER ->
                   /\ pc' = "record"
                   /\ cyc' = c
                   /\ lastAnnounced' = live.vid
                   /\ annOld' = FALSE
                   /\ returned' = returned \cup {live.vid}
                   /\ annHist' = GrowHist(annHist, live.vid)
                   /\ UNCHANGED <<backoff, trail, absentRun>>
    /\ UNCHANGED <<file, state, last_notified_video, live, loadIoErr, saveFailed, initId>>
    /\ UNCHANGED procVars

RecordOnDiskOnly ==
    /\ pc = "record"
    /\ last_notified_video' = last_notified_video
    /\ state' = DictSet(state, STATE_KEY, live.vid)
    /\ \E io \in SaveOutcomes(state') :
         /\ file' = save_state(file, state', io)
         /\ saveFailed' = (io.err # "none")
         /\ Success([cyc EXCEPT !.save = io.err])
         /\ absentRun' = absentRun
    /\ UNCHANGED <<live, lastAnnounced, annOld, loadIoErr, returned, initId, annHist>>
    /\ UNCHANGED procVars

(* lines 120-123, then line 131 (line 133 if save_state let an error out) *)
Record ==
    /\ pc = "record"
    /\ last_notified_video' = live.vid
    /\ state' = DictSet(state, STATE_KEY, live.vid)
    /\ \E io \in SaveOutcomes(state') :
         /\ file' = save_state(file, state', io)
         /\ saveFailed' = (io.err # "none")
         /\ IF save_stateRaises(io)
            THEN Except([cyc EXCEPT !.save = io.err])
            ELSE /\ Success([cyc EXCEPT !.save = io.err])
                 /\ absentRun' = absentRun
    /\ UNCHANGED <<live, lastAnnounced, annOld, loadIoErr, returned, initId, annHist>>
    /\ UNCHANGED procVars

(* line 138: time.sleep(backoff), then the next iteration *)
Sleep ==
    /\ pc = "sleep"
    /\ pc' = "poll"
    /\ live' = NoLive
    /\ cyc' = NoCycle
    /\ UNCHANGED <<file, state, last_notified_video, backoff, trail, absentRun,
                   lastAnnounced, annOld, loadIoErr>>
    /\ UNCHANGED procVars
    /\ UNCHANGED histVars

(* the process is terminated externally and started again in the same     *)
(* environment: the check of line 154 passes as before and a new poll     *)
(* thread starts; only the file survives                                  *)
Restart ==
    /\ pc \notin {"main", "exited", "start"}
    /\ pc' = "start"
    /\ threads' = 1
    /\ http' = "none"
    /\ config' = config
    /\ saveFailed' = FALSE
    /\ annHist' = <<>>
    /\ UNCHANGED <<returned, initId>>
    /\ state' = EmptyDict
    /\ last_notified_video' = PyNone
    /\ backoff' = POLL_INTERVAL
    /\ live' = NoLive
    /\ cyc' = NoCycle
    /\ trail' = <<>>
    /\ absentRun' = 0
    /\ annOld' = (lastAnnounced # PyNone)
    /\ loadIoErr' = FALSE
    /\ UNCHANGED <<file, lastAnnounced>>

LoopNext == Main \/ LoadState \/ Poll \/ Notify \/ Record \/ Sleep

Next == Main \/ LoadState \/ Poll \/ Notify \/ Record \/ Sleep \/ HealthCheck \/ Restart

Spec == Init /\ [][Next]_vars

(* the thread is scheduled as long as the process lives *)
LiveSpec == Init /\ [][LoopNext]_vars /\ WF_vars(LoopNext)

---------------------------------------------------------------------------
(* Properties *)

CycleGotLive == cyc.active /\ cyc.result.tag = "live"

(* C1: a cycle whose checker returns the id equal to lastNotifiedId goes    *)
(* straight to the sleep step: no notifier call, in-memory id and state     *)
(* file as before the cycle.                                                *)
C1_SameIdNoAction ==
    (CycleGotLive /\ cyc.result.vid = cyc.preLast)
        => /\ pc = "sleep"
           /\ cyc.calls = <<>>
           /\ last_notified_video = cyc.preLast
           /\ file = cyc.preFile

C1_Witness ==
    /\ pc = "sleep"
    /\ CycleGotLive
    /\ cyc.result.vid = cyc.preLast
    /\ cyc.preFile.exists

(* C2 as stated: a cycle whose checker returns an id different from         *)
(* lastNotifiedId sends exactly one notification with that id and title and *)
(* ends with the state file holding that id.                                *)
C2_Original ==
    (pc = "sleep" /\ CycleGotLive /\ cyc.result.vid # cyc.preLast)
        => /\ Len(cyc.calls) = 1
           /\ cyc.calls[1].vid = cyc.result.vid
           /\ cyc.calls[1].title = cyc.result.title
           /\ cyc.calls[1].out \in {"ok", "warn"}
           /\ PersistedId(file) = cyc.result.vid

(* C2 amended: such a cycle calls the notifier exactly once with that id    *)
(* and title; when the call returns, the in-memory id becomes that id and   *)
(* save_state runs once, and the file holds the id when that save had no    *)
(* I/O error (after an open error the file is as before); when the call     *)
(* raises, in-memory id and file stay as before the cycle.                  *)
C2_NewIdNotifiedOnce ==
    (pc = "sleep" /\ CycleGotLive /\ cyc.result.vid # cyc.preLast)
        => /\ Len(cyc.calls) = 1
           /\ cyc.calls[1].vid = cyc.result.vid
           /\ cyc.calls[1].title = cyc.result.title
           /\ cyc.calls[1].out \in {"ok", "warn"}
                => /\ last_notified_video = cyc.result.vid
                   /\ cyc.save # "skipped"
                   /\ cyc.save = "none" => PersistedId(file) = cyc.result.vid
                   /\ cyc.save = "open" => file = cyc.preFile
           /\ cyc.calls[1].out = "raise"
                => /\ last_notified_video = cyc.preLast
                   /\ file = cyc.preFile
                   /\ cyc.save = "skipped"

C2_Witness ==
    /\ pc = "sleep"
    /\ CycleGotLive
    /\ cyc.preLast = PyNone
    /\ cyc.result.vid = PyStr("abc123")
    /\ cyc.result.title = "Big Game"
    /\ cyc.calls = <<[vid |-> PyStr("abc123"), title |-> "Big Game", out |-> "ok"]>>
    /\ cyc.save = "none"
    /\ PersistedId(file) = PyStr("abc123")

Pow2(n) == 2 ^ n

(* C3: after N consecutive faulted cycles the interval is                   *)
(* min(base * 2^N, cap); a cycle that ends without a fault leaves the       *)
(* interval at base; three faults in a row sleep 1800, 3600, 3600.          *)
C3_BackoffDoublesAndCaps ==
    /\ \A i \in 1..Len(trail) : trail[i] = Min(POLL_INTERVAL * Pow2(i), MAX_BACKOFF)
    /\ trail # <<>> => backoff = trail[Len(trail)]
    /\ trail = <<>> => backoff = POLL_INTERVAL
    /\ (pc = "sleep" /\ ~cyc.fault) => (backoff = POLL_INTERVAL /\ trail = <<>>)
    /\ (pc = "sleep" /\ cyc.fault)
          => (trail # <<>> /\ backoff = Min(2 * cyc.preBackoff, MAX_BACKOFF))
    /\ Len(trail) >= 3 => SubSeq(trail, 1, 3) = <<1800, 3600, 3600>>

C3_Witness ==
    /\ pc = "sleep"
    /\ cyc.fault
    /\ Len(trail) = 3
    /\ backoff = 3600

(* C4 as stated: after a restart, a cycle whose checker returns the id that *)
(* was announced last sends no notification.                                *)
C4_Original ==
    (CycleGotLive /\ annOld /\ cyc.result.vid = lastAnnounced)
        => (pc = "sleep" /\ cyc.calls = <<>>)

(* C4 amended: when the state file holds the id that was announced last     *)
(* (save_state wrote it without I/O error) and the restarted process's      *)
(* load_state reads the file without I/O error, a cycle whose checker       *)
(* returns that id sends no notification.                                   *)
C4_NoRenotifyAfterRestart ==
    (/\ CycleGotLive
     /\ annOld
     /\ ~loadIoErr
     /\ PersistedId(file) = lastAnnounced
     /\ cyc.result.vid = lastAnnounced)
        => (pc = "sleep" /\ cyc.calls = <<>>)

C4_Witness ==
    /\ pc = "sleep"
    /\ CycleGotLive
    /\ annOld
    /\ ~loadIoErr
    /\ PersistedId(file) = lastAnnounced
    /\ cyc.result.vid = lastAnnounced
    /\ cyc.calls = <<>>

SameProcess == pc # "start" /\ pc' # "start"

(* C5 as stated: the in-memory id changes only after a successful (200/204) *)
(* notification send, every change is in the file at once, and neither the  *)
(* in-memory nor the persisted id becomes absent again.                     *)
C5_Original ==
    [][SameProcess =>
         /\ last_notified_video' # last_notified_video
              => /\ cyc.calls # <<>>
                 /\ cyc.calls[1].out = "ok"
                 /\ PersistedId(file') = last_notified_video'
         /\ last_notified_video # PyNone => last_notified_video' # PyNone
         /\ PersistedId(file) # PyNone => PersistedId(file') # PyNone]_vars

(* C5 amended: within a process the in-memory id changes only in the step   *)
(* right after the notifier returned without raising (webhook answer 2xx or *)
(* not), to the id of that call, never to absent, and outside that step it  *)
(* equals the id of the latest notifier call that returned; each change     *)
(* comes with exactly one save_state call, after which the file holds the   *)
(* id when the save had no I/O error; the file changes at no other step.    *)
(* On an I/O error the persisted id can stay behind or become absent.       *)
C5_LastNotifiedTracksReturnedCall ==
    /\ []((~annOld /\ lastAnnounced # PyNone /\ pc # "record")
             => last_notified_video = lastAnnounced)
    /\ [][SameProcess =>
            /\ last_notified_video' # last_notified_video
                 => /\ pc = "record"
                    /\ Len(cyc.calls) = 1
                    /\ cyc.calls[1].out \in {"ok", "warn"}
                    /\ last_notified_video' = cyc.calls[1].vid
                    /\ last_notified_video' = lastAnnounced
                    /\ last_notified_video' # PyNone
                    /\ cyc'.save # "skipped"
                    /\ cyc'.save = "none" => PersistedId(file') = last_notified_video'
            /\ last_notified_video # PyNone => last_notified_video' # PyNone
            /\ file' # file => (pc = "record" /\ cyc'.save \in {"none", "write"})]_vars

C5_Witness ==
    /\ pc = "sleep"
    /\ Len(cyc.calls) = 1
    /\ cyc.calls[1].out = "warn"
    /\ cyc.preLast # PyNone
    /\ last_notified_video = cyc.result.vid
    /\ cyc.save = "write"
    /\ PersistedId(cyc.preFile) = cyc.preLast
    /\ PersistedId(file) = PyNone

(* a state file whose text is a JSON object with the recognised key *)
ValidStateFile(f) ==
    /\ f.exists
    /\ JsonLoad(f.text).ok
    /\ JsonLoad(f.text).val.t = "dict"
    /\ HasKey(JsonLoad(f.text).val.items, STATE_KEY)

(* C6: whatever the state file holds that is not a valid matching JSON      *)
(* state, loading at loop start raises nothing and yields no last-notified  *)
(* id: the loop goes on to its first poll.                                  *)
C6_Original ==
    [][(pc = "start" /\ ~ValidStateFile(file))
          => (pc' = "poll" /\ last_notified_video' = PyNone)]_vars

CheckerErrors == {"non200", "timeout", "malformed"}

(* C7 as stated: a non-success status, a timeout and a malformed response   *)
(* each end the cycle without notification, with state unchanged and the    *)
(* interval at min(2 * previous, cap).                                      *)
C7_Original ==
    (pc = "sleep" /\ cyc.resp \in CheckerErrors)
        => /\ cyc.calls = <<>>
           /\ last_notified_video = cyc.preLast
           /\ file = cyc.preFile
           /\ backoff = Min(2 * cyc.preBackoff, MAX_BACKOFF)

(* C7 amended: a timeout and a malformed response end the cycle in the      *)
(* fault branch, without notification, with state unchanged and the         *)
(* interval at min(2 * previous, cap); a non-success status also gives no   *)
(* notification and unchanged state but ends the cycle as a success, with   *)
(* the interval at base.                                                    *)
C7_CheckerErrors ==
    /\ (cyc.active /\ cyc.resp \in {"timeout", "malformed"})
          => /\ pc = "sleep"
             /\ cyc.result.tag = "raise"
             /\ cyc.fault
             /\ cyc.calls = <<>>
             /\ last_notified_video = cyc.preLast
             /\ file = cyc.preFile
             /\ backoff = Min(2 * cyc.preBackoff, MAX_BACKOFF)
    /\ (cyc.active /\ cyc.resp = "non200")
          => /\ pc = "sleep"
             /\ ~cyc.fault
             /\ cyc.calls = <<>>
             /\ last_notified_video = cyc.preLast
             /\ file = cyc.preFile
             /\ backoff = POLL_INTERVAL

C7_Witness ==
    /\ pc = "sleep"
    /\ cyc.resp = "malformed"
    /\ cyc.preBackoff = 1800
    /\ backoff = 3600
    /\ cyc.preLast # PyNone

(* C8: a cycle whose checker yields None (zero results, or a non-success    *)
(* status) sends nothing, leaves in-memory id and file as they were and     *)
(* ends with the interval at base; through a run of up to ten such cycles   *)
(* the interval is base and the notifier is not called.                     *)
C8_AbsentIsSuccess ==
    /\ (cyc.active /\ cyc.resp \in {"empty", "non200"})
          => /\ cyc.result.tag = "None"
             /\ pc = "sleep"
    /\ (cyc.active /\ cyc.result.tag = "None")
          => /\ cyc.resp \in {"empty", "non200"}
             /\ pc = "sleep"
             /\ ~cyc.fault
             /\ cyc.calls = <<>>
             /\ last_notified_video = cyc.preLast
             /\ file = cyc.preFile
             /\ backoff = POLL_INTERVAL
             /\ absentRun >= 1
    /\ absentRun >= 1
          => /\ pc \in {"poll", "sleep"}
             /\ backoff = POLL_INTERVAL
             /\ trail = <<>>
             /\ cyc.calls = <<>>

C8_Witness ==
    /\ pc = "sleep"
    /\ absentRun = 10
    /\ cyc.resp = "non200"
    /\ cyc.preBackoff = POLL_INTERVAL
    /\ backoff = POLL_INTERVAL

(* C9: a cycle in which the webhook delivery failed (a non-2xx answer or a  *)
(* failed post) does not end in the fault branch, ends with the interval at *)
(* base, and has recorded the id so that no later cycle sends it again.     *)
C9_Original ==
    (pc = "sleep" /\ cyc.calls # <<>> /\ cyc.calls[1].out \in {"warn", "raise"})
        => /\ ~cyc.fault
           /\ backoff = POLL_INTERVAL
           /\ last_notified_video = cyc.calls[1].vid

(* C10: once run_poll_loop has started, the loop always comes to its sleep  *)
(* step and from there always starts another poll cycle.                    *)
C10_Original ==
    /\ (pc \notin {"main", "exited"}) ~> (pc = "sleep")
    /\ (pc = "sleep") ~> (pc = "poll")

(* C11: no network call of a poll cycle keeps the loop waiting without     *)
(* end: the search request and the webhook post each end with a result or   *)
(* a fault, so the loop is never stuck inside a call.                       *)
C11_Original == pc # "blocked"

Configured(c) ==
    /\ c.key \notin {"", PlaceholderKey}
    /\ c.channel \notin {"", PlaceholderChannel}
    /\ c.webhook \notin {"", PlaceholderWebhook}

(* C12: the poll thread and the web server run only when all three          *)
(* settings are present and not placeholders; otherwise the process has     *)
(* exited at startup without starting them.                                 *)
C12_Original ==
    /\ pc \notin {"main", "exited"} => Configured(config)
    /\ pc = "exited" => (~Configured(config) /\ threads = 0 /\ http = "none")
    /\ (pc # "main" /\ ~Configured(config)) => pc = "exited"

(* C13: a save_state that hits an I/O error after the notification for Y   *)
(* does not fault the cycle (the interval ends at base) and leaves the      *)
(* in-memory id at Y; a later cycle of the same process whose checker       *)
(* returns Y sends nothing and does not write the file again.               *)
C13_SaveErrorKeepsMemory ==
    /\ (pc = "sleep" /\ cyc.save \in {"open", "write"})
          => /\ ~cyc.fault
             /\ backoff = POLL_INTERVAL
             /\ Len(cyc.calls) = 1
             /\ last_notified_video = cyc.calls[1].vid
             /\ saveFailed
    /\ (saveFailed /\ pc # "record")
          => /\ last_notified_video = lastAnnounced
             /\ ~annOld
    /\ (saveFailed /\ pc # "record" /\ CycleGotLive /\ cyc.save = "skipped"
           /\ cyc.result.vid = lastAnnounced)
          => /\ pc = "sleep"
             /\ cyc.calls = <<>>
             /\ file = cyc.preFile
             /\ last_notified_video = lastAnnounced

C13_Witness ==
    /\ pc = "sleep"
    /\ saveFailed
    /\ CycleGotLive
    /\ cyc.save = "skipped"
    /\ cyc.result.vid = lastAnnounced
    /\ cyc.calls = <<>>
    /\ PersistedId(file) # lastAnnounced

(* C14: after a save_state without I/O error, load_state gives back the    *)
(* saved state: the same last_notified_video_id and every other key with    *)
(* its value, in the same order.                                            *)
C14_SaveLoadRoundTrip ==
    (pc = "sleep" /\ cyc.save = "none")
        => /\ load_state(file, FALSE) = state
           /\ DictGet(load_state(file, FALSE), STATE_KEY) = last_notified_video
           /\ last_notified_video = cyc.result.vid

C14_Witness ==
    /\ pc = "sleep"
    /\ cyc.save = "none"
    /\ Len(state.items) = 2
    /\ state.items[1].k = "other"
    /\ load_state(file, FALSE) = state
    /\ DictGet(state, STATE_KEY) = PyStr("abc123")

LoopLocals == <<pc, file, state, last_notified_video, backoff, live>>

IsRestart == pc # "main" /\ pc' = "start"

(* C15: a process has started exactly one poll loop once its check of the  *)
(* configuration has passed, and never a second one; wherever the loop      *)
(* stands, answering GET / changes neither its position, its locals         *)
(* (lastNotifiedId, interval, state dict) nor the state file, and no step   *)
(* of the loop changes what the handler wrote.                              *)
C15_HealthCheckIsolated ==
    /\ [](threads <= 1 /\ (threads = 1 <=> pc \notin {"main", "exited"}))
    /\ [][/\ http' # http /\ ~IsRestart
               => /\ http' = home
                  /\ UNCHANGED LoopLocals
                  /\ threads' = threads
          /\ (LoopLocals' # LoopLocals /\ ~IsRestart) => http' = http]_vars

C15_Witness ==
    /\ http = home
    /\ threads = 1
    /\ pc = "sleep"
    /\ cyc.fault
    /\ backoff = MAX_BACKOFF
    /\ last_notified_video # PyNone

(* C16: a cycle that ends in the except branch, raised by the checker or   *)
(* by the notifier, has in-memory id and state file as before the cycle     *)
(* and has not called save_state; the step into the branch changes the      *)
(* interval and leaves state dict, in-memory id and file alone.             *)
C16_FaultLeavesStateAlone ==
    /\ []((cyc.active /\ cyc.fault)
             => /\ pc = "sleep"
                /\ last_notified_video = cyc.preLast
                /\ file = cyc.preFile
                /\ cyc.save = "skipped"
                /\ cyc.result.tag = "raise"
                     \/ (Len(cyc.calls) = 1 /\ cyc.calls[1].out = "raise"))
    /\ [][(cyc'.fault /\ ~cyc.fault)
             => /\ UNCHANGED <<state, last_notified_video, file>>
                /\ backoff' = Min(2 * backoff, MAX_BACKOFF)]_vars

C16_Witness ==
    /\ pc = "sleep"
    /\ cyc.fault
    /\ Len(cyc.calls) = 1
    /\ cyc.calls[1].out = "raise"
    /\ cyc.preLast # PyNone
    /\ cyc.preFile.exists
    /\ backoff # cyc.preBackoff

(* C17: when the state file held no id at the start, the id it holds at    *)
(* any later time, over faults and restarts, is one for which the notifier  *)
(* was called and returned without raising; the same holds for the          *)
(* in-memory id, and the loop is at the lines that record an id only after  *)
(* such a call for that id.                                                 *)
C17_PersistedIdWasNotified ==
    /\ PersistedId(file) \in returned \cup {PyNone, initId}
    /\ initId = PyNone
          => /\ PersistedId(file) \in returned \cup {PyNone}
             /\ last_notified_video \in returned \cup {PyNone}
    /\ pc = "record"
          => /\ live.vid \in returned
             /\ Len(cyc.calls) = 1
             /\ cyc.calls[1].vid = live.vid
             /\ cyc.calls[1].out \in {"ok", "warn"}

C17_Witness ==
    /\ initId = PyNone
    /\ annOld
    /\ pc = "poll"
    /\ PersistedId(file) # PyNone
    /\ PersistedId(file) # lastAnnounced
    /\ PersistedId(file) \in returned

Last(h) == h[Len(h)]

(* C18: the loop remembers one id, the one it announced last. A cycle that  *)
(* ends without a fault and whose checker returned an id calls the notifier *)
(* (once) exactly when that id differs from the remembered one; a cycle     *)
(* whose checker returned None leaves the remembered id alone, so the same  *)
(* id is never announced twice in a row by one process, while an id may be  *)
(* announced again after a different one (X, Y, X: three announcements).    *)
C18_RemembersOnlyLatestId ==
    /\ (pc = "sleep" /\ CycleGotLive /\ ~cyc.fault)
          => /\ Len(cyc.calls) <= 1
             /\ Len(cyc.calls) = 1 <=> cyc.result.vid # cyc.preLast
             /\ last_notified_video = cyc.result.vid
             /\ (cyc.calls # <<>> /\ Len(annHist) >= 2)
                   => annHist[Len(annHist) - 1] = cyc.preLast
    /\ (pc = "sleep" /\ cyc.result.tag = "None")
          => (cyc.calls = <<>> /\ last_notified_video = cyc.preLast)
    /\ (annHist # <<>> /\ pc # "record") => last_notified_video = Last(annHist)
    /\ \A i \in 1..(Len(annHist) - 1) : annHist[i] # annHist[i + 1]

C18_Witness ==
    /\ pc = "sleep"
    /\ ~cyc.fault
    /\ Len(cyc.calls) = 1
    /\ annHist = <<PyStr("abc123"), PyStr("xyz789"), PyStr("abc123")>>
    /\ cyc.preLast = PyStr("xyz789")
    /\ last_notified_video = PyStr("abc123")

====
